---- MODULE Spec2Model ----
(***************************************************************************)
(* A model of synchronize-images (src/src/main.rs): main reads the event   *)
(* markers, the image names and the trajectory, validates them, and sweeps *)
(* the triggers against the trajectory's adjacent sample pairs.            *)
(*                                                                         *)
(* Times are integers.  A DateTime<Utc> is an integer instant; a position's *)
(* f64 `time` is an integer number of seconds or NaN.  Three bodies of the *)
(* source are `unimplemented!()` (Synchronizer::next, Position::datetime,  *)
(* Record::new); they are modelled from the specification's sections 4.4,  *)
(* 4.5 and 4.6.                                                            *)
(***************************************************************************)
EXTENDS Integers, Sequences, FiniteSets, TLC

\* ------------------------------------------------------------------ bounds
MaxLines == 3     \* lines of the synchro file
MaxImages == 3    \* lines of the image list
MaxRows == 3      \* rows of the trajectory file
MaxDatetime == 4  \* event-marker datetimes are 0..MaxDatetime
MaxTime == 3      \* position times are 0..MaxTime
WeekLen == 3      \* length of the continuous clock's reference period
F64Bits == 6      \* mantissa bits of the scaled-down f64 (53 in the source)

\* f64 NaN, the one value of Position.time that is no number.
NaN == -1

VARIABLES
    pc,             \* main's position
    event_markers,  \* the Vec read_synchro returned (kept after the move)
    images,         \* the Vec read_image_names returned (kept after the move)
    positions,      \* the Vec read_positions returned (kept after the move)
    synchronizer,   \* main's `synchronizer`
    trajectory,     \* main's `trajectory`
    event_marker,   \* main's `event_marker`
    file_name,      \* main's `file_name`
    before,         \* main's `before`
    after,          \* main's `after`
    records,        \* main's `records`
    error,          \* the Err main returns, [kind |-> "None"] while there is none
    emitted,        \* history: the arguments of each Record::new call and where they came from
    last,           \* history: the statement of main executed last
    iterations,     \* history: the iterations of the loop of lines 51-82 begun so far
    skipped         \* history: the places in event_markers of the triggers the skip arm passed

vars == <<pc, event_markers, images, positions, synchronizer, trajectory,
          event_marker, file_name, before, after, records, error, emitted, last, iterations,
          skipped>>

\* ------------------------------------------------------------ value shapes
NoError == [kind |-> "None"]
NoEventMarker == [datetime |-> -1, number |-> -1]
NoFileName == <<"none", 0>>
NoPosition == [time |-> -1, longitude |-> -1, latitude |-> -1, height |-> -1,
               roll |-> -1, pitch |-> -1, yaw |-> -1]

\* std::vec::IntoIter: the buffer and the index of the next item.
IntoIter(v) == [items |-> v, next |-> 1]
NoIter == IntoIter(<<>>)
NoSynchronizer == [built |-> FALSE, event_markers |-> NoIter, images |-> NoIter]
NoTrajectory == [built |-> FALSE, before |-> NoIter, after |-> [iter |-> NoIter, n |-> 0]]

\* The k-th row of a trajectory file: its time and a pose that differs from row
\* to row and from field to field.
Row(k, t) == [time |-> t, longitude |-> 10 * k, latitude |-> 10 * k + 1,
              height |-> 10 * k + 2, roll |-> 10 * k + 3, pitch |-> 10 * k + 4,
              yaw |-> 10 * k + 5]

\* The k-th line of a synchro file.  kind: "marker" parses; "comment" is empty or
\* starts with '#'; "nomatch" does not match RE; "baddate", "badtime" and
\* "badnumber" match RE and hold a date (month 13), a time (hour 25) or a number
\* (more than i32 holds) that does not parse; "ioerr" could not be read.
Line(k, kind, d) == [kind |-> kind, datetime |-> d, number |-> k]
BadFieldKinds == {"baddate", "badtime", "badnumber"}
LineContents == {<<"marker", d>> : d \in 0..MaxDatetime}
                  \cup {<<kind, 0>> : kind \in {"comment", "nomatch", "ioerr"} \cup BadFieldKinds}
SynchroFiles == UNION {{[k \in 1..n |-> Line(k, c[k][1], c[k][2])] : c \in [1..n -> LineContents]} :
                          n \in 0..MaxLines}

ImageName(k) == <<"image", k>>
ImageFiles == {[k \in 1..n |-> ImageName(k)] : n \in 0..MaxImages}

TrajectoryFiles(Times) == UNION {{[k \in 1..n |-> Row(k, ts[k])] : ts \in [1..n -> Times]} :
                                    n \in 0..MaxRows}
FiniteTimes == 0..MaxTime
F64Times == FiniteTimes \cup {NaN}

\* --------------------------------------------------------------- f64 order
\* `a > b` on f64: false when either side is NaN.
F64Gt(a, b) == a # NaN /\ b # NaN /\ a > b
F64Le(a, b) == a # NaN /\ b # NaN /\ a <= b

\* ------------------------------------------------------------- iterators
\* IntoIter::next
IntoIter_next(it) ==
    IF it.next <= Len(it.items)
    THEN [some |-> TRUE, value |-> it.items[it.next], iter |-> [it EXCEPT !.next = @ + 1]]
    ELSE [some |-> FALSE, iter |-> it]

\* Iterator::skip(n) and Skip::next: the first call drops n items, then yields.
Skip(it, n) == [iter |-> it, n |-> n]
RECURSIVE IntoIter_nth(_, _)
IntoIter_nth(it, n) ==
    IF n = 0 THEN IntoIter_next(it)
    ELSE LET r == IntoIter_next(it) IN
         IF r.some THEN IntoIter_nth(r.iter, n - 1) ELSE r
Skip_next(s) ==
    LET r == IF s.n > 0 THEN IntoIter_nth(s.iter, s.n) ELSE IntoIter_next(s.iter)
    IN IF r.some
       THEN [some |-> TRUE, value |-> r.value, iter |-> [iter |-> r.iter, n |-> 0]]
       ELSE [some |-> FALSE, iter |-> [iter |-> r.iter, n |-> 0]]

\* ------------------------------------------------------------------ parsing
Ok(v) == [ok |-> TRUE, value |-> v]
Err(e) == [ok |-> FALSE, error |-> e]

\* EventMarker::from_str: a line RE does not match is InvalidEventMarker(line)
\* (lines 240-242); a date or time that does not parse is chrono's ParseError
\* (lines 243-245) and a number that does not parse is ParseIntError (line 246),
\* each passed on by `?`.
EventMarker_from_str(s) ==
    IF s.kind \in {"nomatch", "comment"} THEN Err([kind |-> "InvalidEventMarker", line |-> s])
    ELSE IF s.kind \in {"baddate", "badtime"} THEN Err([kind |-> "ChronoParseError"])
    ELSE IF s.kind = "badnumber" THEN Err([kind |-> "ParseIntError"])
    ELSE Ok([datetime |-> s.datetime, number |-> s.number])

\* read_synchro, after File::open: skip the empty and '#' lines, parse the rest,
\* and collect up to the first error.
RECURSIVE read_synchro_from(_, _, _)
read_synchro_from(lines, i, acc) ==
    IF i > Len(lines) THEN Ok(acc)
    ELSE IF lines[i].kind = "ioerr" THEN Err([kind |-> "Io"])
    ELSE IF lines[i].kind = "comment" THEN read_synchro_from(lines, i + 1, acc)
    ELSE LET r == EventMarker_from_str(lines[i]) IN
         IF r.ok THEN read_synchro_from(lines, i + 1, Append(acc, r.value)) ELSE r
read_synchro(lines) == read_synchro_from(lines, 1, <<>>)

\* ------------------------------------------------------------- Synchronizer
\* Mutant: the comparison of line 189 written `>=`, which rejects equal neighbours.
RECURSIVE EventMarkerSlipAt_RejectsEqual(_, _)
EventMarkerSlipAt_RejectsEqual(ems, i) ==
    IF i + 1 > Len(ems) THEN 0
    ELSE IF ems[i].datetime >= ems[i + 1].datetime THEN i
    ELSE EventMarkerSlipAt_RejectsEqual(ems, i + 1)

\* The first adjacent pair of the zip with before.datetime > after.datetime, 0 if none.
RECURSIVE EventMarkerSlipAt(_, _)
EventMarkerSlipAt(ems, i) ==
    IF i + 1 > Len(ems) THEN 0
    ELSE IF ems[i].datetime > ems[i + 1].datetime THEN i
    ELSE EventMarkerSlipAt(ems, i + 1)

\* Mutant: the length check of line 182 written `<`, which lets a short image list through.
Synchronizer_new_FewerMarkers(ems, imgs) ==
    IF Len(ems) < Len(imgs)
    THEN Err([kind |-> "CountMismatch", event_markers |-> ems, images |-> imgs])
    ELSE LET i == EventMarkerSlipAt(ems, 1) IN
         IF i # 0
         THEN Err([kind |-> "EventMarkerSlip", before |-> ems[i], after |-> ems[i + 1]])
         ELSE Ok([built |-> TRUE, event_markers |-> IntoIter(ems), images |-> IntoIter(imgs)])

\* Mutant: Synchronizer::new with the non-emptiness check made at construction.
Synchronizer_new_ChecksEmpty(ems, imgs) ==
    IF Len(ems) # Len(imgs)
    THEN Err([kind |-> "CountMismatch", event_markers |-> ems, images |-> imgs])
    ELSE IF ems = <<>> THEN Err([kind |-> "NoEventMarkers"])
    ELSE LET i == EventMarkerSlipAt(ems, 1) IN
         IF i # 0
         THEN Err([kind |-> "EventMarkerSlip", before |-> ems[i], after |-> ems[i + 1]])
         ELSE Ok([built |-> TRUE, event_markers |-> IntoIter(ems), images |-> IntoIter(imgs)])

\* Mutant: Synchronizer::new with the order of the markers checked before the counts.
Synchronizer_new_SlipFirst(ems, imgs) ==
    LET i == EventMarkerSlipAt(ems, 1) IN
    IF i # 0
    THEN Err([kind |-> "EventMarkerSlip", before |-> ems[i], after |-> ems[i + 1]])
    ELSE IF Len(ems) # Len(imgs)
    THEN Err([kind |-> "CountMismatch", event_markers |-> ems, images |-> imgs])
    ELSE Ok([built |-> TRUE, event_markers |-> IntoIter(ems), images |-> IntoIter(imgs)])

\* Synchronizer::new
Synchronizer_new(ems, imgs) ==
    IF Len(ems) # Len(imgs)
    THEN Err([kind |-> "CountMismatch", event_markers |-> ems, images |-> imgs])
    ELSE LET i == EventMarkerSlipAt(ems, 1) IN
         IF i # 0
         THEN Err([kind |-> "EventMarkerSlip", before |-> ems[i], after |-> ems[i + 1]])
         ELSE Ok([built |-> TRUE, event_markers |-> IntoIter(ems), images |-> IntoIter(imgs)])

\* Synchronizer::next (unimplemented!() in the source): the zip of the two
\* iterators, "a zipped iterator over the event markers and the images".
Synchronizer_next(s) ==
    LET e == IntoIter_next(s.event_markers) IN
    IF ~e.some THEN [some |-> FALSE, self |-> [s EXCEPT !.event_markers = e.iter]]
    ELSE LET f == IntoIter_next(s.images) IN
         IF ~f.some
         THEN [some |-> FALSE, self |-> [s EXCEPT !.event_markers = e.iter, !.images = f.iter]]
         ELSE [some |-> TRUE, event_marker |-> e.value, file_name |-> f.value,
               self |-> [s EXCEPT !.event_markers = e.iter, !.images = f.iter]]

\* --------------------------------------------------------------- Trajectory
\* Mutant: the check of lines 307-316 made of the first pair only.
GpsWeekTimeSlipAt_FirstPairOnly(ps, i) ==
    IF Len(ps) >= 2 /\ F64Gt(ps[1].time, ps[2].time) THEN 1 ELSE 0

\* The first adjacent pair of the zip with before.time > after.time, 0 if none.
RECURSIVE GpsWeekTimeSlipAt(_, _)
GpsWeekTimeSlipAt(ps, i) ==
    IF i + 1 > Len(ps) THEN 0
    ELSE IF F64Gt(ps[i].time, ps[i + 1].time) THEN i
    ELSE GpsWeekTimeSlipAt(ps, i + 1)

\* Mutant: line 317 without its skip(1), which pairs every sample with itself.
Trajectory_new_NoSkip(ps) ==
    LET i == GpsWeekTimeSlipAt(ps, 1) IN
    IF i # 0
    THEN Err([kind |-> "GpsWeekTimeSlip", before |-> ps[i], after |-> ps[i + 1]])
    ELSE Ok([built |-> TRUE, before |-> IntoIter(ps), after |-> Skip(IntoIter(ps), 0)])

\* Mutant: Trajectory::new with the minimum length checked at construction.
Trajectory_new_ChecksLength(ps) ==
    LET i == GpsWeekTimeSlipAt(ps, 1) IN
    IF i # 0
    THEN Err([kind |-> "GpsWeekTimeSlip", before |-> ps[i], after |-> ps[i + 1]])
    ELSE IF Len(ps) < 2 THEN Err([kind |-> "EmptyTrajectory"])
    ELSE Ok([built |-> TRUE, before |-> IntoIter(ps), after |-> Skip(IntoIter(ps), 1)])

\* Mutant: Trajectory::new without the check of lines 307-316.
Trajectory_new_NoSlipCheck(ps) ==
    Ok([built |-> TRUE, before |-> IntoIter(ps), after |-> Skip(IntoIter(ps), 1)])

\* Trajectory::new
Trajectory_new(ps) ==
    LET i == GpsWeekTimeSlipAt(ps, 1) IN
    IF i # 0
    THEN Err([kind |-> "GpsWeekTimeSlip", before |-> ps[i], after |-> ps[i + 1]])
    ELSE Ok([built |-> TRUE, before |-> IntoIter(ps), after |-> Skip(IntoIter(ps), 1)])

\* Trajectory::next
Trajectory_next(t) ==
    LET b == IntoIter_next(t.before) IN
    IF ~b.some THEN [some |-> FALSE, self |-> [t EXCEPT !.before = b.iter]]
    ELSE LET a == Skip_next(t.after) IN
         IF ~a.some
         THEN [some |-> FALSE, self |-> [t EXCEPT !.before = b.iter, !.after = a.iter]]
         ELSE [some |-> TRUE, before |-> b.value, after |-> a.value,
               self |-> [t EXCEPT !.before = b.iter, !.after = a.iter]]

\* ------------------------------------------------- Position::datetime, Record
\* Position::datetime (unimplemented!() in the source), from section 4.4: the
\* offset between the reference marker's calendar time and its continuous-clock
\* time (the seconds elapsed within its reference period), added to the
\* position's continuous-clock time.
ClockOffset(em) == em.datetime - (em.datetime % WeekLen)
Position_datetime(p, em) == ClockOffset(em) + p.time

\* f64 arithmetic (the pose fields of Position and Record are f64, lines 90-97
\* and 148-165), scaled down: a value is an integer m * 2^e with |m| < 2^F64Bits
\* and e >= 0, and every operation returns the representable value nearest its
\* exact result, ties to the even mantissa.  F64Round(n, d) rounds n / d.
RECURSIVE Pow2(_)
Pow2(n) == IF n = 0 THEN 1 ELSE 2 * Pow2(n - 1)
Abs(x) == IF x < 0 THEN 0 - x ELSE x
F64Limit == Pow2(F64Bits)
\* The value of a one-element set, which names a value computed once.
The(S) == CHOOSE v \in S : TRUE
\* The spacing s of the representable values around n / d, and n / d rounded to it.
RECURSIVE F64StepFrom(_, _, _)
F64StepFrom(n, d, s) == IF n < F64Limit * s * d THEN s ELSE F64StepFrom(n, d, 2 * s)
F64Ulp(x) == F64StepFrom(Abs(x), 1, 1)
F64RoundTo(n, d, s) ==
    LET k == n \div (d * s)
        r == n - k * d * s
    IN IF 2 * r < d * s \/ (2 * r = d * s /\ k % 2 = 0) THEN k * s ELSE (k + 1) * s
F64RoundAbs(n, d) == The({F64RoundTo(n, d, s) : s \in {F64StepFrom(n, d, 1)}})
F64Round(n, d) ==
    IF (n < 0) = (d < 0) THEN F64RoundAbs(Abs(n), Abs(d)) ELSE 0 - F64RoundAbs(Abs(n), Abs(d))
F64Representable(x) == F64Round(x, 1) = x
F64Add(a, b) == F64Round(a + b, 1)
F64Sub(a, b) == F64Round(a - b, 1)
F64Mul(a, b) == F64Round(a * b, 1)
F64Div(a, b) == F64Round(a, b)

\* Mutant: interpolation weighted by the distance to `after`.
Interpolate_FromAfter(bv, av, bt, at, t) ==
    IF at = bt THEN bv
    ELSE The({F64Add(bv, q) : q \in
             {F64Div(p, at - bt) : p \in
             {F64Mul(d, at - t) : d \in {F64Sub(av, bv)}}}})

\* Section 4.6's interpolation of one field,
\* before + (after - before) * (target - before.time) / (after.time - before.time),
\* evaluated in f64 from left to right, d, p and q being its intermediate values;
\* the degenerate bracket returns before's.
Interpolate(bv, av, bt, at, t) ==
    IF at = bt THEN bv
    ELSE The({F64Add(bv, q) : q \in
             {F64Div(p, at - bt) : p \in
             {F64Mul(d, t - bt) : d \in {F64Sub(av, bv)}}}})

\* Record::new (unimplemented!() in the source), from sections 3 and 4.6.
Record_new(em, name, b, a) ==
    LET bt == Position_datetime(b, em)
        at == Position_datetime(a, em)
        t == em.datetime
    IN [file_name |-> name, datetime |-> t,
        longitude |-> Interpolate(b.longitude, a.longitude, bt, at, t),
        latitude |-> Interpolate(b.latitude, a.latitude, bt, at, t),
        height |-> Interpolate(b.height, a.height, bt, at, t),
        roll |-> Interpolate(b.roll, a.roll, bt, at, t),
        pitch |-> Interpolate(b.pitch, a.pitch, bt, at, t),
        yaw |-> Interpolate(b.yaw, a.yaw, bt, at, t)]

\* --------------------------------------------------------------------- main
Init ==
    /\ pc = "read_synchro"
    /\ event_markers = <<>>
    /\ images = <<>>
    /\ positions = <<>>
    /\ synchronizer = NoSynchronizer
    /\ trajectory = NoTrajectory
    /\ event_marker = NoEventMarker
    /\ file_name = NoFileName
    /\ before = NoPosition
    /\ after = NoPosition
    /\ records = <<>>
    /\ error = NoError
    /\ emitted = <<>>
    /\ last = "none"
    /\ iterations = 0
    /\ skipped = {}

\* `?` on an Err: main returns it.
Return(e) == pc' = "failed" /\ error' = e

\* line 42: read_synchro(SYNCHRO)?
ReadSynchro ==
    /\ pc = "read_synchro"
    /\ \/ Return([kind |-> "Io"]) /\ UNCHANGED event_markers
       \/ \E f \in SynchroFiles :
            LET r == read_synchro(f) IN
            IF r.ok
            THEN event_markers' = r.value /\ pc' = "read_image_names" /\ error' = error
            ELSE Return(r.error) /\ UNCHANGED event_markers
    /\ UNCHANGED <<images, positions, synchronizer, trajectory, event_marker, file_name,
                   before, after, records, emitted>>
    /\ last' = "read_synchro"
    /\ iterations' = iterations
    /\ skipped' = skipped

\* line 43: read_image_names(IMAGES)?
ReadImageNames ==
    /\ pc = "read_image_names"
    /\ \/ Return([kind |-> "Io"]) /\ UNCHANGED images
       \/ \E f \in ImageFiles : images' = f /\ pc' = "synchronizer_new" /\ error' = error
    /\ UNCHANGED <<event_markers, positions, synchronizer, trajectory, event_marker, file_name,
                   before, after, records, emitted>>
    /\ last' = "read_image_names"
    /\ iterations' = iterations
    /\ skipped' = skipped

\* line 44: Synchronizer::new(event_markers, images)?
SynchronizerNew ==
    /\ pc = "synchronizer_new"
    /\ LET r == Synchronizer_new(event_markers, images) IN
       IF r.ok
       THEN synchronizer' = r.value /\ pc' = "trajectory_from_path" /\ error' = error
       ELSE Return(r.error) /\ UNCHANGED synchronizer
    /\ UNCHANGED <<event_markers, images, positions, trajectory, event_marker, file_name,
                   before, after, records, emitted>>
    /\ last' = "synchronizer_new"
    /\ iterations' = iterations
    /\ skipped' = skipped

\* line 45: Trajectory::from_path(TRAJECTORY)?, reading rows with the given times.
Trajectory_from_path(Times) ==
    \/ Return([kind |-> "Csv"]) /\ UNCHANGED <<positions, trajectory>>
    \/ \E f \in TrajectoryFiles(Times) :
         LET r == Trajectory_new(f) IN
         /\ positions' = f
         /\ IF r.ok
            THEN trajectory' = r.value /\ pc' = "first_trigger" /\ error' = error
            ELSE Return(r.error) /\ UNCHANGED trajectory

TrajectoryFromPath ==
    /\ pc = "trajectory_from_path"
    /\ Trajectory_from_path(FiniteTimes)
    /\ UNCHANGED <<event_markers, images, synchronizer, event_marker, file_name,
                   before, after, records, emitted>>
    /\ last' = "trajectory_from_path"
    /\ iterations' = iterations
    /\ skipped' = skipped

\* line 47: synchronizer.next().ok_or(Error::NoEventMarkers)?
FirstTrigger ==
    /\ pc = "first_trigger"
    /\ LET n == Synchronizer_next(synchronizer) IN
       /\ synchronizer' = n.self
       /\ IF n.some
          THEN /\ event_marker' = n.event_marker
               /\ file_name' = n.file_name
               /\ pc' = "first_bracket"
               /\ error' = error
          ELSE Return([kind |-> "NoEventMarkers"]) /\ UNCHANGED <<event_marker, file_name>>
    /\ UNCHANGED <<event_markers, images, positions, trajectory, before, after, records,
                   emitted>>
    /\ last' = "first_trigger"
    /\ iterations' = iterations
    /\ skipped' = skipped

\* line 48: trajectory.next().ok_or(Error::EmptyTrajectory)?
FirstBracket ==
    /\ pc = "first_bracket"
    /\ LET n == Trajectory_next(trajectory) IN
       /\ trajectory' = n.self
       /\ IF n.some
          THEN before' = n.before /\ after' = n.after /\ pc' = "loop" /\ error' = error
          ELSE Return([kind |-> "EmptyTrajectory"]) /\ UNCHANGED <<before, after>>
    /\ UNCHANGED <<event_markers, images, positions, synchronizer, event_marker, file_name,
                   records, emitted>>
    /\ last' = "first_bracket"
    /\ iterations' = iterations
    /\ skipped' = skipped

\* ---------------------------------------------------------------- the sweep
\* lines 52-53
before_datetime == Position_datetime(before, event_marker)
after_datetime == Position_datetime(after, event_marker)

\* The places in the input Vecs the current trigger and bracket were taken from.
TriggerIndex == synchronizer.event_markers.next - 1
BracketIndex == trajectory.before.next - 1

\* line 54, for any event marker and bracket
InBracket(em, b, a) ==
    Position_datetime(b, em) <= em.datetime /\ Position_datetime(a, em) >= em.datetime

\* line 54
EmitCondition == before_datetime <= event_marker.datetime /\ after_datetime >= event_marker.datetime
\* line 63
SkipCondition == before_datetime > event_marker.datetime
\* line 71
LagCondition == after_datetime < event_marker.datetime

\* Mutant: the exhausted trigger stream taken as line 47 takes it, as an error.
NextTrigger_ErrorWhenExhausted ==
    LET n == Synchronizer_next(synchronizer) IN
    /\ synchronizer' = n.self
    /\ IF n.some
       THEN /\ event_marker' = n.event_marker
            /\ file_name' = n.file_name
            /\ pc' = "loop"
            /\ error' = error
       ELSE Return([kind |-> "NoEventMarkers"]) /\ UNCHANGED <<event_marker, file_name>>

\* lines 56-62 and 64-70: match synchronizer.next()
NextTrigger ==
    LET n == Synchronizer_next(synchronizer) IN
    /\ synchronizer' = n.self
    /\ error' = error
    /\ IF n.some
       THEN /\ event_marker' = n.event_marker
            /\ file_name' = n.file_name
            /\ pc' = "loop"
       ELSE pc' = "done" /\ UNCHANGED <<event_marker, file_name>>

\* Mutant: the emit branch taking the next bracket as well as the next trigger.
EmitBranch_AdvancesBracket ==
    /\ records' = Append(records, Record_new(event_marker, file_name, before, after))
    /\ emitted' = Append(emitted, [index |-> TriggerIndex, bracket |-> BracketIndex,
                                   event_marker |-> event_marker, file_name |-> file_name,
                                   before |-> before, after |-> after])
    /\ NextTrigger
    /\ last' = "emit"
    /\ iterations' = iterations + 1
    /\ skipped' = skipped
    /\ LET n == Trajectory_next(trajectory) IN
       /\ trajectory' = n.self
       /\ IF n.some THEN before' = n.before /\ after' = n.after ELSE UNCHANGED <<before, after>>

\* lines 55-62
EmitBranch ==
    /\ records' = Append(records, Record_new(event_marker, file_name, before, after))
    /\ emitted' = Append(emitted, [index |-> TriggerIndex, bracket |-> BracketIndex,
                                   event_marker |-> event_marker, file_name |-> file_name,
                                   before |-> before, after |-> after])
    /\ NextTrigger
    /\ last' = "emit"
    /\ iterations' = iterations + 1
    /\ skipped' = skipped
    /\ UNCHANGED <<trajectory, before, after>>

\* Mutant: the skip branch without line 67, which keeps the skipped trigger's image name.
SkipBranch_KeepsFileName ==
    /\ LET n == Synchronizer_next(synchronizer) IN
       /\ synchronizer' = n.self
       /\ IF n.some
          THEN event_marker' = n.event_marker /\ pc' = "loop"
          ELSE pc' = "done" /\ UNCHANGED event_marker
    /\ last' = "skip"
    /\ iterations' = iterations + 1
    /\ skipped' = skipped \cup {TriggerIndex}
    /\ UNCHANGED <<file_name, trajectory, before, after, records, emitted, error>>

\* lines 64-70
SkipBranch ==
    /\ NextTrigger
    /\ last' = "skip"
    /\ iterations' = iterations + 1
    /\ skipped' = skipped \cup {TriggerIndex}
    /\ UNCHANGED <<trajectory, before, after, records, emitted>>

\* Mutant: the exhausted trajectory taken as line 48 takes it, as an error.
LagBranch_ErrorWhenExhausted ==
    /\ LET n == Trajectory_next(trajectory) IN
       /\ trajectory' = n.self
       /\ IF n.some
          THEN before' = n.before /\ after' = n.after /\ pc' = "loop" /\ error' = error
          ELSE Return([kind |-> "EmptyTrajectory"]) /\ UNCHANGED <<before, after>>
    /\ last' = "lag"
    /\ iterations' = iterations + 1
    /\ skipped' = skipped
    /\ UNCHANGED <<synchronizer, event_marker, file_name, records, emitted>>

\* Mutant: the lag branch leaving the loop whether or not a bracket is left.
LagBranch_AlwaysStops ==
    /\ trajectory' = Trajectory_next(trajectory).self
    /\ pc' = "done"
    /\ last' = "lag"
    /\ iterations' = iterations + 1
    /\ skipped' = skipped
    /\ UNCHANGED <<before, after, synchronizer, event_marker, file_name, records, emitted, error>>

\* lines 72-78
LagBranch ==
    /\ LET n == Trajectory_next(trajectory) IN
       /\ trajectory' = n.self
       /\ IF n.some
          THEN before' = n.before /\ after' = n.after /\ pc' = "loop"
          ELSE pc' = "done" /\ UNCHANGED <<before, after>>
    /\ last' = "lag"
    /\ iterations' = iterations + 1
    /\ skipped' = skipped
    /\ UNCHANGED <<synchronizer, event_marker, file_name, records, emitted, error>>

\* line 80: unreachable!()
UnreachableBranch ==
    /\ pc' = "panicked"
    /\ last' = "unreachable"
    /\ iterations' = iterations + 1
    /\ skipped' = skipped
    /\ UNCHANGED <<synchronizer, trajectory, event_marker, file_name, before, after,
                   records, emitted, error>>

\* lines 51-82: one iteration of the loop
Sweep ==
    /\ pc = "loop"
    /\ IF EmitCondition THEN EmitBranch
       ELSE IF SkipCondition THEN SkipBranch
       ELSE IF LagCondition THEN LagBranch
       ELSE UnreachableBranch
    /\ UNCHANGED <<event_markers, images, positions>>

Next ==
    \/ ReadSynchro
    \/ ReadImageNames
    \/ SynchronizerNew
    \/ TrajectoryFromPath
    \/ FirstTrigger
    \/ FirstBracket
    \/ Sweep

Spec == Init /\ [][Next]_vars

\* main is one sequential thread: an iteration of the loop that can begin does.
FairSpec == Spec /\ WF_vars(Sweep)

\* ------------------------------------------- Trajectory::new on f64 times
\* Trajectory::new and Trajectory::next on their own, as tests::gps_week_time_slip
\* calls them, over rows whose time may be NaN.  Once constructed (pc at the
\* statement after line 45) the trajectory is drained, pair by pair.
TrajectoryInit ==
    /\ pc = "trajectory_from_path"
    /\ event_markers = <<>>
    /\ images = <<>>
    /\ positions = <<>>
    /\ synchronizer = NoSynchronizer
    /\ trajectory = NoTrajectory
    /\ event_marker = NoEventMarker
    /\ file_name = NoFileName
    /\ before = NoPosition
    /\ after = NoPosition
    /\ records = <<>>
    /\ error = NoError
    /\ emitted = <<>>
    /\ last = "none"
    /\ iterations = 0
    /\ skipped = {}

TrajectoryFromPathF64 ==
    /\ pc = "trajectory_from_path"
    /\ Trajectory_from_path(F64Times)
    /\ UNCHANGED <<event_markers, images, synchronizer, event_marker, file_name,
                   before, after, records, emitted>>
    /\ last' = "trajectory_from_path"
    /\ iterations' = iterations
    /\ skipped' = skipped

TrajectoryNext ==
    /\ pc = "first_trigger"
    /\ LET n == Trajectory_next(trajectory) IN
       /\ trajectory' = n.self
       /\ IF n.some
          THEN before' = n.before /\ after' = n.after /\ pc' = pc
          ELSE pc' = "done" /\ UNCHANGED <<before, after>>
    /\ last' = "trajectory_next"
    /\ iterations' = iterations
    /\ skipped' = skipped
    /\ UNCHANGED <<event_markers, images, positions, synchronizer, event_marker, file_name,
                   records, error, emitted>>

TrajectoryNextStep == TrajectoryFromPathF64 \/ TrajectoryNext

TrajectorySpec == TrajectoryInit /\ [][TrajectoryNextStep]_vars

\* ------------------------------------------ Record::new on a drawn bracket
\* The pure function Record::new applied to a bracket and a trigger drawn from
\* bounded sets: f64 pose values around the mantissa's width, where sums and
\* differences round, and a trigger the bracket contains.
PoseValues == {0 - (F64Limit + 2), 0 - 1, 0, 1, 3, F64Limit - 1, F64Limit + 2}
Pose(t, x, y) == [time |-> t, longitude |-> x, latitude |-> y, height |-> x,
                  roll |-> y, pitch |-> x, yaw |-> y]
PoseFields == {"longitude", "latitude", "height", "roll", "pitch", "yaw"}

RecordInit ==
    /\ pc = "loop"
    /\ event_markers = <<>>
    /\ images = <<>>
    /\ positions = <<>>
    /\ synchronizer = NoSynchronizer
    /\ trajectory = NoTrajectory
    /\ \E d \in 0..MaxDatetime : event_marker = [datetime |-> d, number |-> 1]
    /\ file_name = ImageName(1)
    /\ \E bt \in FiniteTimes, at \in FiniteTimes, bx \in PoseValues, by \in PoseValues,
          ax \in PoseValues, ay \in PoseValues :
          /\ before = Pose(bt, bx, by)
          /\ after = Pose(at, ax, ay)
    /\ Position_datetime(before, event_marker) <= event_marker.datetime
    /\ event_marker.datetime <= Position_datetime(after, event_marker)
    /\ records = <<>>
    /\ error = NoError
    /\ emitted = <<>>
    /\ last = "none"
    /\ iterations = 0
    /\ skipped = {}

RecordNew ==
    /\ pc = "loop"
    /\ records' = Append(records, Record_new(event_marker, file_name, before, after))
    /\ pc' = "done"
    /\ last' = "record_new"
    /\ iterations' = iterations
    /\ skipped' = skipped
    /\ UNCHANGED <<event_markers, images, positions, synchronizer, trajectory, event_marker,
                   file_name, before, after, error, emitted>>

RecordSpec == RecordInit /\ [][RecordNew]_vars

\* =================================================================== claims
Indices(v) == 1..Len(v)
AdjacentIndices(v) == 1..(Len(v) - 1)

\* The trigger lies within the trajectory's coverage, the samples' datetimes
\* taken as lines 52-53 take them for that trigger.
InCoverage(em) ==
    /\ Position_datetime(positions[1], em) <= em.datetime
    /\ em.datetime <= Position_datetime(positions[Len(positions)], em)

\* C1: when the sweep has ended, the number of records is at most the number of
\* event markers, and equals it exactly when every trigger lies within the
\* trajectory's coverage.
C1_CountInvariant ==
    pc = "done" =>
        /\ Len(records) <= Len(event_markers)
        /\ Len(records) = Len(event_markers)
             <=> \A i \in Indices(event_markers) : InCoverage(event_markers[i])

\* C1 with the coverage taken under one anchor, the first event marker's.
C1_CountInvariantFirstAnchor ==
    pc = "done" =>
        /\ Len(records) <= Len(event_markers)
        /\ Len(records) = Len(event_markers)
             <=> \A i \in Indices(event_markers) :
                    /\ Position_datetime(positions[1], event_markers[1])
                         <= event_markers[i].datetime
                    /\ event_markers[i].datetime
                         <= Position_datetime(positions[Len(positions)], event_markers[1])

\* C1 where it holds: when all event markers give the same clock offset, the
\* count invariant holds.
C1_CountInvariantOneAnchor ==
    (pc = "done" /\ \A i \in Indices(event_markers) :
                      ClockOffset(event_markers[i]) = ClockOffset(event_markers[1])) =>
        /\ Len(records) <= Len(event_markers)
        /\ Len(records) = Len(event_markers)
             <=> \A i \in Indices(event_markers) : InCoverage(event_markers[i])

\* C2: every record pushed is built from two consecutive samples of the
\* trajectory, and its trigger lies in the closed interval of their datetimes.
C2_EmissionSound ==
    /\ Len(records) = Len(emitted)
    /\ \A k \in Indices(emitted) :
         LET e == emitted[k] IN
         /\ records[k] = Record_new(e.event_marker, e.file_name, e.before, e.after)
         /\ \E i \in AdjacentIndices(positions) :
              e.before = positions[i] /\ e.after = positions[i + 1]
         /\ Position_datetime(e.before, e.event_marker) <= e.event_marker.datetime
         /\ e.event_marker.datetime <= Position_datetime(e.after, e.event_marker)

\* C2's case: two records built from two different brackets.
C2_Witness ==
    \E j, k \in Indices(emitted) : emitted[j].bracket # emitted[k].bracket

\* C3: the records appear in trigger order, at most one per trigger, and each
\* carries the image name at its event marker's index.
C3_OrderAndPairing ==
    /\ Len(records) = Len(emitted)
    /\ \A k \in Indices(emitted) :
         /\ emitted[k].index \in Indices(event_markers)
         /\ emitted[k].event_marker = event_markers[emitted[k].index]
         /\ records[k].datetime = event_markers[emitted[k].index].datetime
         /\ records[k].file_name = images[emitted[k].index]
    /\ \A j, k \in Indices(emitted) : j < k => emitted[j].index < emitted[k].index

\* C3's case: a record for a trigger that follows a trigger with no record.
C3_Witness ==
    /\ Len(emitted) >= 2
    /\ \E k \in Indices(emitted) : emitted[k].index # k

\* C4: Synchronizer::new fails with CountMismatch exactly when the two lists
\* differ in length, whatever they hold, and the error carries the two lists.
C4_CountMismatch ==
    last = "synchronizer_new" =>
        /\ error.kind = "CountMismatch" <=> Len(event_markers) # Len(images)
        /\ error.kind = "CountMismatch" =>
             error.event_markers = event_markers /\ error.images = images

\* C4's case: lists of different lengths whose event markers are also out of order.
C4_Witness ==
    /\ last = "synchronizer_new"
    /\ error.kind = "CountMismatch"
    /\ \E i \in AdjacentIndices(event_markers) :
         event_markers[i].datetime > event_markers[i + 1].datetime

EventMarkerSlips == {i \in AdjacentIndices(event_markers) :
                        event_markers[i].datetime > event_markers[i + 1].datetime}

\* C5: for lists of equal length, Synchronizer::new fails with EventMarkerSlip
\* exactly when some adjacent pair is out of order, the error carries the first
\* such pair, and success means the whole sequence is non-decreasing.
C5_EventMarkerSlip ==
    (last = "synchronizer_new" /\ Len(event_markers) = Len(images)) =>
        /\ error.kind = "EventMarkerSlip" <=> EventMarkerSlips # {}
        /\ error.kind = "EventMarkerSlip" =>
             \E i \in EventMarkerSlips :
                /\ \A j \in EventMarkerSlips : i <= j
                /\ error.before = event_markers[i]
                /\ error.after = event_markers[i + 1]
        /\ error = NoError =>
             /\ synchronizer.built
             /\ \A i, j \in Indices(event_markers) :
                  i <= j => event_markers[i].datetime <= event_markers[j].datetime

\* C5's case: two pairs out of order, and an accepted sequence with equal neighbours.
C5_Witness ==
    /\ last = "synchronizer_new"
    /\ error.kind = "EventMarkerSlip"
    /\ Cardinality(EventMarkerSlips) >= 2

C5_WitnessEqual ==
    /\ last = "synchronizer_new"
    /\ error = NoError
    /\ \E i \in AdjacentIndices(event_markers) :
         event_markers[i].datetime = event_markers[i + 1].datetime

GpsWeekTimeSlips == {i \in AdjacentIndices(positions) :
                        F64Gt(positions[i].time, positions[i + 1].time)}

\* C6: Trajectory::new fails with GpsWeekTimeSlip exactly when some adjacent pair
\* has before.time > after.time, the error carries the first such pair, and
\* otherwise construction succeeds and the series is non-decreasing in time.
C6_GpsWeekTimeSlip ==
    (last = "trajectory_from_path" /\ error.kind # "Csv") =>
        /\ error.kind = "GpsWeekTimeSlip" <=> GpsWeekTimeSlips # {}
        /\ error.kind = "GpsWeekTimeSlip" =>
             \E i \in GpsWeekTimeSlips :
                /\ \A j \in GpsWeekTimeSlips : i <= j
                /\ error.before = positions[i]
                /\ error.after = positions[i + 1]
        /\ error = NoError =>
             /\ trajectory.built
             /\ \A i \in AdjacentIndices(positions) :
                  F64Le(positions[i].time, positions[i + 1].time)

\* C6, the part that holds of f64 times: the slip is reported exactly when a pair
\* compares greater, with the first such pair; an accepted series has no pair that
\* compares greater, which a NaN time never does.
C6_SlipReported ==
    (last = "trajectory_from_path" /\ error.kind # "Csv") =>
        /\ error.kind = "GpsWeekTimeSlip" <=> GpsWeekTimeSlips # {}
        /\ error.kind = "GpsWeekTimeSlip" =>
             \E i \in GpsWeekTimeSlips :
                /\ \A j \in GpsWeekTimeSlips : i <= j
                /\ error.before = positions[i]
                /\ error.after = positions[i + 1]
        /\ error = NoError =>
             /\ trajectory.built
             /\ \A i \in AdjacentIndices(positions) :
                  \/ F64Le(positions[i].time, positions[i + 1].time)
                  \/ positions[i].time = NaN
                  \/ positions[i + 1].time = NaN

\* C7 as claimed: constructing the Synchronizer from an empty event-marker list
\* and an empty image list fails with NoEventMarkers.
C7_CheckedAtConstruction ==
    (last = "synchronizer_new" /\ event_markers = <<>> /\ images = <<>>) =>
        error.kind = "NoEventMarkers"

\* C7 as amended: Synchronizer::new accepts the empty lists; main fails with
\* NoEventMarkers exactly at line 47, when the first trigger is requested and
\* there is none, and by then the trajectory has been read and constructed.
C7_CheckedAtFirstTrigger ==
    /\ (last = "synchronizer_new" /\ event_markers = <<>> /\ images = <<>>) =>
           error = NoError /\ synchronizer.built /\ pc = "trajectory_from_path"
    /\ error.kind = "NoEventMarkers" <=> (last = "first_trigger" /\ event_markers = <<>>)
    /\ error.kind = "NoEventMarkers" => trajectory.built

\* C7's case: the run ends with NoEventMarkers after a trajectory was constructed.
C7_Witness ==
    error.kind = "NoEventMarkers" /\ Len(positions) >= 2

\* C8 as claimed: constructing the trajectory from fewer than two samples fails
\* with EmptyTrajectory.
C8_CheckedAtConstruction ==
    (last = "trajectory_from_path" /\ error.kind # "Csv" /\ Len(positions) < 2) =>
        error.kind = "EmptyTrajectory"

\* C8 as amended: Trajectory::new accepts zero samples and one sample; main fails
\* with EmptyTrajectory exactly at line 48, when the first bracket is requested
\* and there is none, which is after a first trigger was obtained.
C8_CheckedAtFirstBracket ==
    /\ (last = "trajectory_from_path" /\ error.kind # "Csv" /\ Len(positions) < 2) =>
           error = NoError /\ trajectory.built /\ pc = "first_trigger"
    /\ error.kind = "EmptyTrajectory" <=> (last = "first_bracket" /\ Len(positions) < 2)
    /\ error.kind = "EmptyTrajectory" => event_marker = event_markers[1]

\* C8's case: the run ends with EmptyTrajectory on a trajectory of exactly one sample.
C8_Witness ==
    error.kind = "EmptyTrajectory" /\ Len(positions) = 1

BeforeTheLoop == {"read_synchro", "read_image_names", "synchronizer_new",
                  "trajectory_from_path", "first_trigger", "first_bracket"}

\* C9: every failure ends the run with its error before any record has been
\* emitted, and once a record has been emitted no error occurs.
C9_AbortWithoutPartialOutput ==
    /\ [](error # NoError => pc = "failed" /\ records = <<>> /\ last \in BeforeTheLoop)
    /\ [](pc = "failed" => error # NoError)
    /\ [][error = NoError /\ (records # <<>> => error' = NoError /\ pc' # "failed")]_vars

\* C9's case: the last validation failure there is, after all three inputs were
\* read and a first trigger was taken, has ended the run.
C9_Witness ==
    /\ pc = "failed"
    /\ error.kind = "EmptyTrajectory"
    /\ Len(event_markers) >= 2
    /\ records = <<>>

\* C9's other case: a run that has emitted a record and has ended.
C9_WitnessEmitted ==
    pc = "done" /\ records # <<>>

\* The current trigger is later than the bracket's after sample and the
\* trajectory has no further pair.
TailTruncation ==
    /\ pc = "loop"
    /\ ~EmitCondition /\ ~SkipCondition /\ LagCondition
    /\ ~Trajectory_next(trajectory).some

\* C10: tail truncation ends the sweep with success: no error, the records
\* emitted so far kept, no record for the current trigger or any later one; a
\* single trigger later than the last sample yields zero records and success.
C10_TailTruncation ==
    /\ [][TailTruncation =>
            /\ pc' = "done"
            /\ error' = NoError
            /\ records' = records
            /\ \A k \in Indices(emitted') : emitted'[k].index < TriggerIndex]_vars
    /\ []((pc = "done" /\ last = "lag") =>
            /\ error = NoError
            /\ Len(records) = Len(emitted)
            /\ \A k \in Indices(emitted) : emitted[k].index < TriggerIndex)
    /\ []((/\ pc \in {"loop", "done", "panicked"}
           /\ Len(event_markers) = 1
           /\ event_markers[1].datetime
                > Position_datetime(positions[Len(positions)], event_markers[1])) =>
            records = <<>> /\ error = NoError /\ pc # "panicked")

\* C10's case: the sweep was cut at the end of the trajectory with records
\* emitted and more than one trigger left without a record.
C10_Witness ==
    /\ pc = "done" /\ last = "lag"
    /\ records # <<>>
    /\ TriggerIndex < Len(event_markers)

\* C10's particular case: a single trigger later than the last sample, run ended.
C10_WitnessSingle ==
    /\ pc = "done" /\ last = "lag"
    /\ Len(event_markers) = 1
    /\ records = <<>>

\* C11 (two runs on the same inputs produce the same output) compares pairs of
\* behaviours and has no formula over one behaviour.

\* C12: a line the parser rejects is rejected with InvalidEventMarker(line),
\* whether it fails RE or holds a date, time or number that does not parse; the
\* parser produces no other error kind.
C12_SingleErrorKind ==
    (last = "read_synchro" /\ error # NoError /\ error.kind # "Io") =>
        /\ error.kind = "InvalidEventMarker"
        /\ error.line.kind \in {"nomatch"} \cup BadFieldKinds

\* C12, the part that holds: a line that does not match RE is rejected with
\* InvalidEventMarker carrying that line; the other kinds are the field parsers'.
C12_ShapeErrorKind ==
    (last = "read_synchro" /\ error # NoError /\ error.kind # "Io") =>
        /\ error.kind \in {"InvalidEventMarker", "ChronoParseError", "ParseIntError"}
        /\ error.kind = "InvalidEventMarker" => error.line.kind = "nomatch"

\* C13, as claimed: a record built at before's time has exactly before's pose
\* values, and one built at after's time has exactly after's (the degenerate
\* bracket, of equal times, returning before's).
C13_At(p) == Position_datetime(p, event_marker) = event_marker.datetime
C13_Degenerate == before.time = after.time
C13_ExactField(f) ==
    /\ F64Representable(after[f] - before[f])
    /\ F64Representable((after[f] - before[f]) * (after.time - before.time))
C13_Larger(f) == IF Abs(before[f]) > Abs(after[f]) THEN before[f] ELSE after[f]
C13_WitnessBefore ==
    /\ last = "record_new"
    /\ C13_At(before) /\ ~C13_Degenerate
    /\ before.longitude # after.longitude
    /\ \A f \in PoseFields : records[1][f] = before[f]
C13_WitnessRounded ==
    /\ last = "record_new"
    /\ C13_At(after) /\ ~C13_Degenerate
    /\ records[1].longitude # after.longitude

\* C14: in every state of the sweep exactly one of the conditions of lines 54, 63
\* and 71 holds for the current trigger and bracket, the bracket's before is not
\* later than its after, and the unreachable!() of line 80 is never executed.
C14_Holding == {c \in {"emit", "skip", "lag"} :
                  \/ c = "emit" /\ EmitCondition
                  \/ c = "skip" /\ SkipCondition
                  \/ c = "lag" /\ LagCondition}
C14_ExactlyOneBranch ==
    /\ pc = "loop" => (Cardinality(C14_Holding) = 1 /\ before_datetime <= after_datetime)
    /\ pc # "panicked"
    /\ last # "unreachable"

\* C14's witness: the sweep has run and stands at a trigger later than a bracket
\* of two different times, where the lag condition holds alone.
C14_Witness ==
    /\ pc = "loop"
    /\ last \in {"emit", "skip", "lag"}
    /\ before.time < after.time
    /\ C14_Holding = {"lag"}
C14_WitnessSkip ==
    /\ pc = "loop"
    /\ last \in {"emit", "skip", "lag"}
    /\ C14_Holding = {"skip"}

\* C15: once the inputs are validated and the loop is entered, the loop ends; it
\* begins at most N + M iterations, for N event markers and M trajectory samples;
\* and an iteration leaves the loop exactly when the stream it asks has nothing
\* left: no trigger after the current one (emit, skip), no sample after the
\* bracket's after (lag).
C15_TriggersExhausted == TriggerIndex >= Len(event_markers)
C15_BracketsExhausted == BracketIndex + 2 > Len(positions)
C15_Bound ==
    pc \in {"loop", "done"} => iterations <= Len(event_markers) + Len(positions)
C15_StopsWhenExhausted ==
    (pc = "loop" /\ iterations' # iterations) =>
        /\ last' \in {"emit", "skip", "lag"}
        /\ pc' \in {"loop", "done"}
        /\ pc' = "done" <=> IF last' = "lag" THEN C15_BracketsExhausted
                                              ELSE C15_TriggersExhausted
C15_Termination ==
    /\ [] C15_Bound
    /\ [][C15_StopsWhenExhausted]_vars
    /\ (pc = "loop") ~> (pc = "done")

\* C15's witness: the loop has ended after more than one iteration, on an
\* exhausted trajectory with triggers left.
C15_Witness ==
    /\ pc = "done"
    /\ last = "lag"
    /\ iterations > 1
    /\ TriggerIndex < Len(event_markers)
C15_WitnessTriggers ==
    /\ pc = "done"
    /\ last \in {"emit", "skip"}
    /\ iterations > 1
    /\ BracketIndex + 2 <= Len(positions)

\* C16: an iteration that stays in the loop moves one cursor by one place and
\* leaves the other where it was: emit and skip take the next event marker and
\* image name and keep the bracket; lag takes the next adjacent pair of samples
\* and keeps the trigger, its image name and the records; skip keeps the
\* records too, emit adds one; and no iteration moves a cursor back.
C16_TriggerStep ==
    /\ TriggerIndex' = TriggerIndex + 1
    /\ event_marker' = event_markers[TriggerIndex']
    /\ file_name' = images[TriggerIndex']
    /\ BracketIndex' = BracketIndex
    /\ UNCHANGED <<trajectory, before, after>>
C16_BracketStep ==
    /\ BracketIndex' = BracketIndex + 1
    /\ before' = after
    /\ before' = positions[BracketIndex']
    /\ after' = positions[BracketIndex' + 1]
    /\ TriggerIndex' = TriggerIndex
    /\ UNCHANGED <<synchronizer, event_marker, file_name, records>>
C16_Step ==
    (pc = "loop" /\ iterations' # iterations) =>
        /\ TriggerIndex' >= TriggerIndex
        /\ BracketIndex' >= BracketIndex
        /\ pc' = "loop" =>
              /\ last' = "emit" => (C16_TriggerStep /\ Len(records') = Len(records) + 1)
              /\ last' = "skip" => (C16_TriggerStep /\ records' = records)
              /\ last' = "lag" => C16_BracketStep
C16_SingleCursorSteps == [][C16_Step]_vars

\* C16's witness: the loop goes on after a second record emitted from the
\* bracket the first was emitted from.
C16_Witness ==
    /\ pc = "loop"
    /\ last = "emit"
    /\ Len(emitted) = 2
    /\ emitted[1].bracket = emitted[2].bracket
    /\ emitted[1].index + 1 = emitted[2].index
    /\ BracketIndex = emitted[2].bracket
C16_WitnessLag ==
    /\ pc = "loop"
    /\ last = "lag"
    /\ BracketIndex = 2
    /\ records # <<>>

\* C17: a trigger the skip arm passes is earlier than every sample from the
\* bracket's before onward, each sample's datetime taken as lines 52-53 take it
\* for that trigger, so neither the bracket nor a later one contains it; and no
\* record is ever emitted for it.
C17_SamplesOnward == BracketIndex..Len(positions)
C17_SkipStep ==
    (pc = "loop" /\ last' = "skip" /\ iterations' # iterations) =>
        /\ records' = records
        /\ before = positions[BracketIndex]
        /\ \A j \in C17_SamplesOnward :
              event_marker.datetime < Position_datetime(positions[j], event_marker)
        /\ \A j \in C17_SamplesOnward \ {Len(positions)} :
              ~InBracket(event_marker, positions[j], positions[j + 1])
C17_NoRecord ==
    \A k \in skipped :
        /\ \A i \in 1..Len(emitted) : emitted[i].index # k
        /\ \A i \in 1..Len(records) : records[i].file_name # images[k]
C17_SkippedUnrecoverable == [] C17_NoRecord /\ [][C17_SkipStep]_vars

\* C17's witness: a trigger was skipped, a later one was emitted, and the sweep
\* has ended.
C17_Witness ==
    /\ pc = "done"
    /\ skipped # {}
    /\ \E i \in 1..Len(emitted) : \A k \in skipped : emitted[i].index > k

\* C18: throughout the sweep the datetime of every trajectory sample is its time
\* plus the one offset of a single reference event marker (the first), whichever
\* trigger is current.
C18_SingleClockAnchor ==
    pc = "loop" =>
        \A j \in 1..Len(positions) :
            Position_datetime(positions[j], event_marker)
                = Position_datetime(positions[j], event_markers[1])

\* C19: for inputs that were read and parsed, a run that fails in validation
\* reports the first that applies of CountMismatch, EventMarkerSlip,
\* GpsWeekTimeSlip, NoEventMarkers, EmptyTrajectory, and a run reaches the loop
\* only when none applies.
C19_FirstThatApplies ==
    IF Len(event_markers) # Len(images) THEN "CountMismatch"
    ELSE IF EventMarkerSlips # {} THEN "EventMarkerSlip"
    ELSE IF GpsWeekTimeSlips # {} THEN "GpsWeekTimeSlip"
    ELSE IF event_markers = <<>> THEN "NoEventMarkers"
    ELSE IF Len(positions) < 2 THEN "EmptyTrajectory"
    ELSE "None"
C19_ValidationPrecedence ==
    /\ (/\ pc = "failed"
        /\ last \in {"synchronizer_new", "trajectory_from_path", "first_trigger", "first_bracket"}
        /\ error.kind # "Csv") => error.kind = C19_FirstThatApplies
    /\ pc = "first_trigger" => C19_FirstThatApplies \in {"NoEventMarkers", "EmptyTrajectory", "None"}
    /\ pc = "first_bracket" => C19_FirstThatApplies \in {"EmptyTrajectory", "None"}
    /\ pc \in {"loop", "done"} => (C19_FirstThatApplies = "None" /\ error = NoError)

\* C19's witnesses: CountMismatch reported for event markers that are out of
\* order as well, and GpsWeekTimeSlip reported for an empty list of event markers.
C19_Witness ==
    /\ pc = "failed"
    /\ error.kind = "CountMismatch"
    /\ EventMarkerSlips # {}
C19_WitnessEmptyMarkers ==
    /\ pc = "failed"
    /\ error.kind = "GpsWeekTimeSlip"
    /\ event_markers = <<>>
    /\ GpsWeekTimeSlips # {}

====
